---- MODULE Spec2Model ----
(***************************************************************************)
(* Model of the servo-cam client's communication core: the discovery      *)
(* listener (Sockets.thread_connect), the channel manager                  *)
(* (Sockets.thread_data, send, send_self, restart, stop), the message      *)
(* dispatcher (Handler) and the orchestrator / video publisher main        *)
(* thread (Worker.start, VideoPublisher).                                  *)
(*                                                                         *)
(* Socket mode (worker.web = False) with unencrypted data channel          *)
(* (encrypt.enabled_data = False) and a configured device kind (arduino    *)
(* or raspberry) are modelled.                                             *)
(***************************************************************************)
EXTENDS Integers, Sequences, FiniteSets, TLC

VARIABLES
    proc,           \* process status: "running", "exit0" (exit status 0), "exit1"
    server_ip,      \* Worker.server_ip: None or the controller's address
    connected,      \* Worker.connected
    s_exiting,      \* Sockets.exiting
    conn_pc,        \* position of the thread running Sockets.thread_connect
    conn_socket,    \* Sockets.conn_socket: "none", "listening", "unbound", "closed"
    conn,           \* Sockets.conn: "none", "open", "closed"
    conn_obs,       \* what happened on the connection accepted last
    data_pc,        \* position of the thread running Sockets.thread_data
    pull,           \* Sockets.pull_socket / pull_context
    push,           \* Sockets.push_socket / push_context
    self_socket,    \* Sockets.self_socket / self_context created (loopback PUSH)
    inq,            \* unread messages on the inbound (PULL) endpoint, per sender
    h_do_restart,   \* Handler.do_restart
    v_do_restart,   \* VideoPublisher.do_restart (attribute written by handle_cmd)
    last,           \* what the dispatch of the message received last did
    main_pc,        \* position of the main thread (client.py, Worker.start)
    sender,         \* VideoPublisher.sender: "none", "open", "closed"
    restarting,     \* VideoPublisher.restarting
    active,         \* VideoPublisher.active
    v_exiting,      \* VideoPublisher.exiting
    v_obs,          \* what the publish loop's iteration run last did
    n_conn,         \* discovery connections accepted so far
    n_msg,          \* messages the peer has put on the command channel so far
                    \* (under SendSpec, VideoSpec and StatusSpec: calls of
                    \* the function made so far)
    n_fault,        \* disturbances (transport faults, interrupts) so far
    enabled_video,  \* Encrypt.enabled_video (video encryption is on)
    jpg_compress,   \* Worker.jpg_compress
    web,            \* Worker.web
    status,         \* Worker.status: the device status collected last
    prev_status     \* the device handler's prev_status

vars == <<proc, server_ip, connected, s_exiting, conn_pc, conn_socket, conn,
          conn_obs, data_pc, pull, push, self_socket, inq, h_do_restart,
          v_do_restart, last, main_pc, sender, restarting, active,
          v_exiting, v_obs, n_conn, n_msg, n_fault, enabled_video,
          jpg_compress, web, status, prev_status>>

\* the stream options loaded from the configuration
streamVars == <<enabled_video, jpg_compress>>
\* the state of the device status collector
statusVars == <<web, status, prev_status>>

----------------------------------------------------------------------------
(* Bounds of the model *)

MaxConns == 1
MaxMsgs == 1
MaxFaults == 1
\* calls of Sockets.send in a behaviour of SendSpec, and of
\* VideoPublisher.send in a behaviour of VideoSpec
MaxSends == 3
\* calls of collect_status in a behaviour of StatusSpec
MaxCollects == 4

----------------------------------------------------------------------------
(* Worker's protocol constants *)

None == "None"

CMD_CONN_NEW == "NEW"
CMD_RESTART == "RESTART"
CMD_DESTROY == "DESTROY"
CMD_DISCONNECT == "DISCONNECT"
RESPONSE_OK == "OK"
RESPONSE_ACCEPT == "ACCEPT"
RESPONSE_RECV == "RECV"
DATA_KEY_CMD == "CMD"
DATA_KEY_SELF == "SELF"
DATA_KEY_CONN == "CONN"

\* Worker.device after configuration: one of the two device kinds
DEVICE_ARDUINO == "arduino"
DEVICE_RASPBERRY == "raspberry"
device == DEVICE_ARDUINO

\* Worker.hostname after Worker.init
hostname == "cam1"

\* round(time.time() * 1000): the clock reading is abstracted to one token
NowMs == "ms"

\* source address of the n-th discovery connection: successive connections
\* come from different controllers
PeerAddr(n) == IF n % 2 = 0 THEN "10.0.0.1" ELSE "10.0.0.2"

----------------------------------------------------------------------------
(* Envelope codec: json.dumps / json.loads and bytes <-> text.             *)
(* A text is either the JSON rendering of a value or not JSON at all; a    *)
(* byte string either is the UTF-8 encoding of a text or is not UTF-8.     *)

JNone == [type |-> "none"]
JInt == [type |-> "int"]
JDict(d) == [type |-> "dict", d |-> d]

JsonText(val) == [kind |-> "json", val |-> val]
GarbageText == [kind |-> "garbage"]

Utf8(text) == [valid |-> TRUE, text |-> text]
BadUtf8 == [valid |-> FALSE]

\* utils.json_encode
json_encode(d) == JsonText(JDict(d))

\* utils.json_decode: json.loads, None on any error
json_decode(text) == IF text.kind = "json" THEN text.val ELSE JNone

\* utils.to_json
to_json(data, key) == JsonText(JDict([k |-> key, v |-> data, t |-> NowMs]))

\* Sockets.encode, raw branch: bytes(data, 'UTF-8')
encode(text) == Utf8(text)

\* Sockets.decode, raw branch: json_decode(data.decode("utf-8")).
\* data.decode raises UnicodeDecodeError outside json_decode's try.
decode(data) ==
    IF ~data.valid
    THEN [raised |-> TRUE, val |-> JNone]
    ELSE [raised |-> FALSE, val |-> json_decode(data.text)]

----------------------------------------------------------------------------
(* Inputs of the model *)

\* buffers a peer can send on an accepted discovery connection
ConnInputs ==
    { BadUtf8,
      encode(GarbageText),
      encode(JsonText(JInt)),
      encode(json_encode([k |-> DATA_KEY_CONN])),
      encode(json_encode([k |-> DATA_KEY_CONN, v |-> "OLD"])),
      encode(json_encode([k |-> DATA_KEY_CMD, v |-> CMD_CONN_NEW])),
      encode(json_encode([k |-> DATA_KEY_CONN, v |-> CMD_CONN_NEW])) }

\* messages a peer can put on the command channel (PORT_DATA)
PeerInputs ==
    { BadUtf8,
      encode(GarbageText),
      encode(JsonText(JInt)),
      encode(json_encode([k |-> DATA_KEY_CMD])),
      encode(json_encode([k |-> DATA_KEY_CONN, v |-> CMD_CONN_NEW])),
      encode(json_encode([k |-> DATA_KEY_CMD, v |-> ""])),
      encode(json_encode([k |-> DATA_KEY_CMD, v |-> CMD_DISCONNECT])),
      encode(json_encode([k |-> DATA_KEY_CMD, v |-> CMD_RESTART])),
      encode(json_encode([k |-> DATA_KEY_CMD, v |-> CMD_DESTROY])),
      encode(json_encode([k |-> DATA_KEY_CMD, v |-> "90,90"])),
      encode(json_encode([k |-> DATA_KEY_SELF, v |-> "RESTART"])),
      encode(json_encode([k |-> DATA_KEY_SELF, v |-> "STATUS: 1"])) }

----------------------------------------------------------------------------
(* State after construction (Worker.__init__, Sockets.__init__,            *)
(* Handler.__init__, VideoPublisher.__init__) and Worker.init              *)

\* Sockets.__init__, lines 31-34: the option flags of the two endpoints
pull_wait == FALSE
pull_linger == FALSE
\* a faulty variant of the flag: the outbound endpoint queues its messages
push_wait_on == TRUE
push_wait == FALSE
push_linger == TRUE

\* an endpoint: its socket and context handles, whether it is bound, the
\* options set on the socket ("conflate" for CONFLATE = 1, "linger0" for
\* LINGER = 0) and, for the outbound endpoint, the messages it holds that
\* the peer has not read yet
NoEndpoint == [sock |-> "none", ctx |-> "none", bound |-> FALSE, opts |-> {},
               buf |-> <<>>]
\* `accepted` records that some handshake has been answered with ACCEPT
NoObs == [addr |-> None, data |-> <<>>, sent |-> <<>>, sendOk |-> FALSE,
          posted |-> FALSE, accepted |-> FALSE]
NoLast == [bytes |-> <<>>, src |-> "none", sent |-> <<>>, dev |-> <<>>,
           restarts |-> 0]

\* what VideoPublisher.send hands to the sender, lines 140-151: nothing, a
\* raw image (send_image) or a JPEG (send_jpg), encrypted or not
NoFrame == [call |-> "none", jpeg |-> FALSE, encrypted |-> FALSE]
FrameSent(jpg, enc) ==
    IF jpg THEN [call |-> "send_jpg", jpeg |-> TRUE, encrypted |-> enc]
    ELSE [call |-> "send_image", jpeg |-> FALSE, encrypted |-> FALSE]

NoVObs == [consumed |-> FALSE, restart |-> "none", send |-> "none",
           cycles |-> 0, frame |-> NoFrame]

Init ==
    /\ proc = "running"
    /\ server_ip = None
    /\ connected = FALSE
    /\ s_exiting = FALSE
    /\ conn_pc = "off"
    /\ conn_socket = "none"
    /\ conn = "none"
    /\ conn_obs = NoObs
    /\ data_pc = "off"
    /\ pull = NoEndpoint
    /\ push = NoEndpoint
    /\ self_socket = FALSE
    /\ inq = [peer |-> <<>>, self |-> <<>>]
    /\ h_do_restart = FALSE
    /\ v_do_restart = FALSE
    /\ last = NoLast
    /\ main_pc = "init"
    /\ sender = "none"
    /\ restarting = FALSE
    /\ active = FALSE
    /\ v_exiting = FALSE
    /\ v_obs = NoVObs
    /\ n_conn = 0
    /\ n_msg = 0
    /\ n_fault = 0
    /\ enabled_video = FALSE
    /\ jpg_compress = FALSE
    /\ web = FALSE
    /\ status = None
    /\ prev_status = None

\* a disturbance (a transport fault: bind, accept, send, receive or create
\* failure; a failing cleanup; a keyboard interrupt) may still happen
CanFault == n_fault < MaxFaults

----------------------------------------------------------------------------
(* Channel Manager primitives (Sockets)                                    *)

\* guard of Sockets.send_self, lines 230-231
SelfGuard == self_socket

\* Sockets.send_self: no-op unless the guard passes, else self_socket.send.
\* The inbound PULL endpoint is created with CONFLATE (pull_wait = False):
\* it keeps only the newest unread message of a sender.
send_self(q, text) ==
    IF ~SelfGuard THEN q ELSE [q EXCEPT !.self = <<encode(text)>>]

\* guard of Sockets.send, lines 215-216
SendGuard ==
    ~(server_ip = None \/ push.sock = "none" \/ push.ctx = "none"
        \/ push.ctx = "closed")

\* a faulty variant of the send: a payload is handed to the socket twice
SocketsSendTwice(sent, text) ==
    IF SendGuard THEN Append(Append(sent, encode(text)), encode(text)) ELSE sent

\* Sockets.send: no-op unless the guard passes, else push_socket.send(encode(msg));
\* `sent` is the list of byte strings handed to the PUSH socket so far
SocketsSend(sent, text) ==
    IF SendGuard THEN Append(sent, encode(text)) ELSE sent

\* the outbound endpoint after Sockets.send: a PUSH socket with CONFLATE
\* keeps only the newest message the peer has not read, one without it
\* queues them all
PushSent(e, text) ==
    IF ~SendGuard THEN e
    ELSE [e EXCEPT !.buf = IF "conflate" \in e.opts THEN <<encode(text)>>
                            ELSE Append(@, encode(text))]

\* Sockets.restart_pull_socket / restart_push_socket: close, term, sleep,
\* new context, new socket, bind; a bind failure is caught and logged and
\* leaves the new socket unbound.  CONFLATE is set unless the endpoint's
\* wait flag is on, LINGER = 0 when its linger flag is on.
\* a faulty variant of the restart: the socket options are not set again
RestartedEndpointNoOptions(wait, linger, bindOk) ==
    [sock |-> "open", ctx |-> "open", bound |-> bindOk, opts |-> {},
     buf |-> <<>>]

RestartedEndpoint(wait, linger, bindOk) ==
    [sock |-> "open", ctx |-> "open", bound |-> bindOk,
     opts |-> (IF ~wait THEN {"conflate"} ELSE {})
                \cup (IF linger THEN {"linger0"} ELSE {}),
     buf |-> <<>>]

\* Sockets.stop on one endpoint: socket.close() and context.term() when present
StoppedEndpoint(e) ==
    [e EXCEPT !.sock = IF e.sock = "none" THEN "none" ELSE "closed",
              !.ctx = IF e.ctx = "none" THEN "none" ELSE "closed",
              !.bound = FALSE,
              !.buf = IF "linger0" \in e.opts THEN <<>> ELSE e.buf]

\* close() of a socket object that may be absent (guarded `is not None`)
ClosedIfPresent(x) == IF x = "none" THEN "none" ELSE "closed"

----------------------------------------------------------------------------
(* Discovery Listener: Sockets.thread_connect                              *)

\* a faulty variant of the response: the hostname is left out
AcceptResponseNoHostname ==
    [k |-> DATA_KEY_CMD, v |-> RESPONSE_ACCEPT, t |-> NowMs]

\* the response of lines 75-80
AcceptResponse ==
    [k |-> DATA_KEY_CMD, v |-> RESPONSE_ACCEPT, t |-> NowMs, hostname |-> hostname]

\* the loopback message of lines 84-87 (it carries no "t")
SelfRestartMsg == [k |-> DATA_KEY_SELF, v |-> "RESTART"]

\* a faulty variant of the test: the value of v is not looked at
IsConnNewAnyValue(msg) ==
    /\ msg.type = "dict"
    /\ "k" \in DOMAIN msg.d /\ "v" \in DOMAIN msg.d
    /\ msg.d.k = DATA_KEY_CONN

\* the test of lines 71-72 on a decoded value that is a dict or None
IsConnNew(msg) ==
    /\ msg.type = "dict"
    /\ "k" \in DOMAIN msg.d /\ "v" \in DOMAIN msg.d
    /\ msg.d.k = DATA_KEY_CONN
    /\ msg.d.v = CMD_CONN_NEW

\* the peer address recorded at line 73
RecordedPeer(addr) == addr

\* lines 50-53: the first socket / bind / listen; a failure here is not caught
ConnBind ==
    /\ proc = "running" /\ conn_pc = "bind"
    /\ \/ /\ conn_socket' = "listening"
          /\ conn_pc' = "loop"
          /\ UNCHANGED n_fault
       \/ /\ CanFault
          /\ n_fault' = n_fault + 1
          /\ conn_socket' = "unbound"
          /\ conn_pc' = "dead"
    /\ UNCHANGED <<proc, server_ip, connected, s_exiting, conn, conn_obs, data_pc,
                   pull, push, self_socket, inq, h_do_restart, v_do_restart, last,
                   main_pc, sender, restarting, active, v_exiting, v_obs,
                   n_conn, n_msg,
                   streamVars, statusVars>>

\* lines 58-64: the head of the accept loop
ConnLoop ==
    /\ proc = "running" /\ conn_pc = "loop"
    /\ conn_pc' = IF s_exiting THEN "done" ELSE "accept"
    /\ UNCHANGED <<proc, server_ip, connected, s_exiting, conn_socket, conn,
                   conn_obs, data_pc, pull, push, self_socket, inq, h_do_restart,
                   v_do_restart, last, main_pc, sender, restarting, active,
                   v_exiting, v_obs, n_conn, n_msg, n_fault,
                   streamVars, statusVars>>

\* a faulty variant of lines 68-88: the loopback RESTART is posted before
\* the response is sent
ConnAcceptPostsFirst ==
    /\ proc = "running" /\ conn_pc = "accept"
    /\ conn_socket = "listening"
    /\ n_conn < MaxConns
    /\ \E data \in ConnInputs :
         LET addr == PeerAddr(n_conn)
             r == decode(data)
             obs == [addr |-> addr, data |-> <<data>>, sent |-> <<>>,
                     sendOk |-> FALSE, posted |-> FALSE,
                     accepted |-> conn_obs.accepted]
         IN
         /\ n_conn' = n_conn + 1
         /\ conn' = "open"
         /\ IF r.raised \/ r.val.type = "int"
            THEN \* UnicodeDecodeError, or TypeError of `'k' in msg`
                 /\ conn_obs' = obs
                 /\ conn_pc' = "except"
                 /\ UNCHANGED <<server_ip, inq, n_fault>>
            ELSE IF IsConnNew(r.val)
            THEN /\ server_ip' = RecordedPeer(addr)
                 /\ \/ /\ inq' = send_self(inq, json_encode(SelfRestartMsg))
                       /\ conn_obs' =
                            [obs EXCEPT
                               !.sent = <<encode(json_encode(AcceptResponse))>>,
                               !.sendOk = TRUE,
                               !.accepted = TRUE,
                               !.posted = SelfGuard]
                       /\ conn_pc' = "close"
                       /\ UNCHANGED n_fault
                    \/ \* conn.sendall raises (the peer is gone)
                       /\ CanFault
                       /\ n_fault' = n_fault + 1
                       /\ conn_obs' =
                            [obs EXCEPT
                               !.sent = <<encode(json_encode(AcceptResponse))>>]
                       /\ conn_pc' = "except"
                       /\ inq' = send_self(inq, json_encode(SelfRestartMsg))
            ELSE /\ conn_obs' = obs
                 /\ conn_pc' = "close"
                 /\ UNCHANGED <<server_ip, inq, n_fault>>
    /\ UNCHANGED <<proc, connected, s_exiting, conn_socket, data_pc, pull, push,
                   self_socket, h_do_restart, v_do_restart, last, main_pc,
                   sender, restarting, active, v_exiting, v_obs, n_msg,
                   streamVars, statusVars>>

\* lines 68-88: accept a connection, read one buffer, decode; on CONN/NEW
\* record the peer, answer, run the on-connect hook (empty) and post the
\* loopback RESTART
ConnAccept ==
    /\ proc = "running" /\ conn_pc = "accept"
    /\ conn_socket = "listening"
    /\ n_conn < MaxConns
    /\ \E data \in ConnInputs :
         LET addr == PeerAddr(n_conn)
             r == decode(data)
             obs == [addr |-> addr, data |-> <<data>>, sent |-> <<>>,
                     sendOk |-> FALSE, posted |-> FALSE,
                     accepted |-> conn_obs.accepted]
         IN
         /\ n_conn' = n_conn + 1
         /\ conn' = "open"
         /\ IF r.raised \/ r.val.type = "int"
            THEN \* UnicodeDecodeError, or TypeError of `'k' in msg`
                 /\ conn_obs' = obs
                 /\ conn_pc' = "except"
                 /\ UNCHANGED <<server_ip, inq, n_fault>>
            ELSE IF IsConnNew(r.val)
            THEN /\ server_ip' = RecordedPeer(addr)
                 /\ \/ /\ inq' = send_self(inq, json_encode(SelfRestartMsg))
                       /\ conn_obs' =
                            [obs EXCEPT
                               !.sent = <<encode(json_encode(AcceptResponse))>>,
                               !.sendOk = TRUE,
                               !.accepted = TRUE,
                               !.posted = SelfGuard]
                       /\ conn_pc' = "close"
                       /\ UNCHANGED n_fault
                    \/ \* conn.sendall raises (the peer is gone)
                       /\ CanFault
                       /\ n_fault' = n_fault + 1
                       /\ conn_obs' =
                            [obs EXCEPT
                               !.sent = <<encode(json_encode(AcceptResponse))>>]
                       /\ conn_pc' = "except"
                       /\ UNCHANGED inq
            ELSE /\ conn_obs' = obs
                 /\ conn_pc' = "close"
                 /\ UNCHANGED <<server_ip, inq, n_fault>>
    /\ UNCHANGED <<proc, connected, s_exiting, conn_socket, data_pc, pull, push,
                   self_socket, h_do_restart, v_do_restart, last, main_pc,
                   sender, restarting, active, v_exiting, v_obs, n_msg,
                   streamVars, statusVars>>

\* line 68 raising: the listening socket is closed or unbound, or accept fails
ConnAcceptErr ==
    /\ proc = "running" /\ conn_pc = "accept"
    /\ \/ /\ conn_socket # "listening"
          /\ UNCHANGED n_fault
       \/ /\ conn_socket = "listening"
          /\ CanFault
          /\ n_fault' = n_fault + 1
    /\ conn_pc' = "except"
    /\ UNCHANGED <<proc, server_ip, connected, s_exiting, conn_socket, conn,
                   conn_obs, data_pc, pull, push, self_socket, inq, h_do_restart,
                   v_do_restart, last, main_pc, sender, restarting, active,
                   v_exiting, v_obs, n_conn, n_msg,
                   streamVars, statusVars>>

\* a faulty variant of lines 91-98: the accepted connection is not closed
ConnCloseLeavesOpen ==
    /\ proc = "running" /\ conn_pc = "close"
    /\ conn' = conn
    /\ conn_obs' = [NoObs EXCEPT !.accepted = conn_obs.accepted]
    /\ \/ /\ conn_socket' = "listening"
          /\ conn_pc' = "loop"
          /\ UNCHANGED n_fault
       \/ /\ CanFault
          /\ n_fault' = n_fault + 1
          /\ conn_socket' = "unbound"
          /\ conn_pc' = "except"
    /\ UNCHANGED <<proc, server_ip, connected, s_exiting, data_pc, pull,
                   push, self_socket, inq, h_do_restart, v_do_restart, last, main_pc, sender, restarting, active, v_exiting, v_obs, n_conn,
                   n_msg,
                   streamVars, statusVars>>

\* lines 91-98: close the connection and the listener, sleep, listen again;
\* a failing bind raises into the handler of line 99
ConnClose ==
    /\ proc = "running" /\ conn_pc = "close"
    /\ conn' = "closed"
    /\ conn_obs' = [NoObs EXCEPT !.accepted = conn_obs.accepted]
    /\ \/ /\ conn_socket' = "listening"
          /\ conn_pc' = "loop"
          /\ UNCHANGED n_fault
       \/ /\ CanFault
          /\ n_fault' = n_fault + 1
          /\ conn_socket' = "unbound"
          /\ conn_pc' = "except"
    /\ UNCHANGED <<proc, server_ip, connected, s_exiting, data_pc, pull,
                   push, self_socket, inq, h_do_restart, v_do_restart, last, main_pc, sender, restarting, active, v_exiting, v_obs, n_conn,
                   n_msg,
                   streamVars, statusVars>>

\* lines 99-114: the error path.  self.conn.close() on conn = None raises
\* AttributeError inside the handler, which ends the thread.
ConnExcept ==
    /\ proc = "running" /\ conn_pc = "except"
    /\ conn_obs' = [NoObs EXCEPT !.accepted = conn_obs.accepted]
    /\ IF conn = "none"
       THEN /\ conn_pc' = "dead"
            /\ UNCHANGED <<conn, conn_socket, n_fault>>
       ELSE /\ conn' = "closed"
            /\ conn_pc' = "loop"
            /\ \/ /\ conn_socket' = "listening"
                  /\ UNCHANGED n_fault
               \/ /\ CanFault
                  /\ n_fault' = n_fault + 1
                  /\ conn_socket' = "unbound"
    /\ UNCHANGED <<proc, server_ip, connected, s_exiting, data_pc, pull,
                   push, self_socket, inq, h_do_restart, v_do_restart, last, main_pc, sender, restarting, active, v_exiting, v_obs, n_conn,
                   n_msg,
                   streamVars, statusVars>>

----------------------------------------------------------------------------
(* Message Dispatcher: Handler                                             *)

\* Handler.handle, lines 27-39, on a decoded value: which branch is taken.
\* `'k' in msg` on a number raises TypeError.
HandleRoute(msg) ==
    IF msg.type = "none" THEN "ignore"
    ELSE IF msg.type = "int" THEN "raise"
    ELSE IF "k" \in DOMAIN msg.d /\ "v" \in DOMAIN msg.d
         THEN IF msg.d.k = DATA_KEY_CMD THEN "cmd"
              ELSE IF msg.d.k = DATA_KEY_SELF THEN "self"
              ELSE "ignore"
         ELSE "ignore"

\* a faulty variant of the branch test: DESTROY is not recognised
CmdBranchNoDestroy(cmd) ==
    IF cmd = CMD_DISCONNECT THEN "disconnect"
    ELSE IF cmd = CMD_RESTART THEN "restart"
    ELSE IF cmd # "" THEN "device"
    ELSE "empty"

\* a faulty variant of the branch test: the empty value is not filtered
CmdBranchNoEmptyTest(cmd) ==
    IF cmd = CMD_DISCONNECT THEN "disconnect"
    ELSE IF cmd = CMD_RESTART THEN "restart"
    ELSE IF cmd = CMD_DESTROY THEN "destroy"
    ELSE "device"

\* Handler.handle_cmd, lines 66-84: which branch a command value takes
CmdBranch(cmd) ==
    IF cmd = CMD_DISCONNECT THEN "disconnect"
    ELSE IF cmd = CMD_RESTART THEN "restart"
    ELSE IF cmd = CMD_DESTROY THEN "destroy"
    ELSE IF cmd # "" THEN "device"
    ELSE "empty"

\* a faulty variant of the acknowledgment: RECV in every branch
CmdAckAlwaysRecv(branch) == to_json(RESPONSE_RECV, DATA_KEY_CMD)

\* the acknowledgment handle_cmd sends in each branch
CmdAck(branch) ==
    IF branch = "device" THEN to_json(RESPONSE_RECV, DATA_KEY_CMD)
    ELSE to_json(RESPONSE_OK, DATA_KEY_CMD)

\* a faulty variant of the forwarding: the command is handed over twice
send_to_device_twice(dev, cmd) == Append(Append(dev, cmd), cmd)

\* Worker.send_to_device: device_send(cmd) of the configured device;
\* `dev` is the list of commands handed to the Device collaborator
send_to_device(dev, cmd) ==
    IF device = DEVICE_ARDUINO \/ device = DEVICE_RASPBERRY
    THEN Append(dev, cmd) ELSE dev

\* a faulty variant of the relayed envelope: the kind is left SELF
socket_send_data_self(msg) == [k |-> DATA_KEY_SELF, v |-> msg, t |-> NowMs]

\* Worker.socket_send, lines 210-215: the envelope relayed to the peer
socket_send_data(msg) == [k |-> DATA_KEY_CMD, v |-> msg, t |-> NowMs]

\* VideoPublisher.close: closes the sender's socket and context when open
ClosedSender(x) == IF x = "open" THEN "closed" ELSE x

\* Sockets.restart: restart_pull_socket then restart_push_socket
SocketsRestart ==
    \/ /\ pull' = RestartedEndpoint(pull_wait, pull_linger, TRUE)
       /\ push' = RestartedEndpoint(push_wait, push_linger, TRUE)
       /\ UNCHANGED n_fault
    \/ /\ CanFault
       /\ n_fault' = n_fault + 1
       /\ \E which \in {"pull", "push"} :
            /\ pull' = RestartedEndpoint(pull_wait, pull_linger, which # "pull")
            /\ push' = RestartedEndpoint(push_wait, push_linger, which # "push")

----------------------------------------------------------------------------
(* Channel Manager receive loop: Sockets.thread_data                       *)

\* lines 124-147: create and bind both endpoints; a bind failure is not caught
DataInit ==
    /\ proc = "running" /\ data_pc = "init"
    /\ \/ /\ push' = RestartedEndpoint(push_wait, push_linger, TRUE)
          /\ pull' = RestartedEndpoint(pull_wait, pull_linger, TRUE)
          /\ data_pc' = "loop"
          /\ UNCHANGED n_fault
       \/ /\ CanFault
          /\ n_fault' = n_fault + 1
          /\ data_pc' = "dead"
          /\ \/ /\ push' = RestartedEndpoint(push_wait, push_linger, FALSE)
                /\ UNCHANGED pull
             \/ /\ push' = RestartedEndpoint(push_wait, push_linger, TRUE)
                /\ pull' = RestartedEndpoint(pull_wait, pull_linger, FALSE)
    /\ UNCHANGED <<proc, server_ip, connected, s_exiting, conn_pc, conn_socket,
                   conn, conn_obs, self_socket, inq, h_do_restart, v_do_restart,
                   last, main_pc, sender, restarting, active, v_exiting,
                   v_obs, n_conn, n_msg,
                   streamVars, statusVars>>

\* lines 149-156: the head of the receive loop (the wait of line 155 spins)
DataLoop ==
    /\ proc = "running" /\ data_pc = "loop"
    /\ \/ /\ s_exiting
          /\ data_pc' = "done"
       \/ /\ ~s_exiting
          /\ ~(server_ip = None \/ pull.sock = "none" \/ pull.ctx = "none"
                 \/ pull.ctx = "closed")
          /\ data_pc' = "recv"
    /\ last' = NoLast
    /\ UNCHANGED <<proc, server_ip, connected, s_exiting, conn_pc, conn_socket,
                   conn, conn_obs, pull, push, self_socket, inq, h_do_restart,
                   v_do_restart, main_pc, sender, restarting, active,
                   v_exiting, v_obs, n_conn, n_msg, n_fault,
                   streamVars, statusVars>>

\* line 158 returning a message
DataRecvMsg ==
    /\ proc = "running" /\ data_pc = "recv"
    /\ pull.sock = "open" /\ pull.bound
    /\ \E src \in {"peer", "self"} :
         /\ inq[src] # <<>>
         /\ last' = [bytes |-> inq[src], src |-> src, sent |-> <<>>, dev |-> <<>>,
                     restarts |-> 0]
         /\ inq' = [inq EXCEPT ![src] = <<>>]
    /\ data_pc' = "handle"
    /\ UNCHANGED <<proc, server_ip, connected, s_exiting, conn_pc, conn_socket,
                   conn, conn_obs, pull, push, self_socket, h_do_restart,
                   v_do_restart, main_pc, sender, restarting, active,
                   v_exiting, v_obs, n_conn, n_msg, n_fault,
                   streamVars, statusVars>>

\* a faulty variant of the receive error path: the error is not caught and
\* ends the thread
DataRecvErrUncaught ==
    /\ proc = "running" /\ data_pc = "recv"
    /\ \/ /\ pull.sock = "closed"
          /\ UNCHANGED n_fault
       \/ /\ pull.sock = "open"
          /\ CanFault
          /\ n_fault' = n_fault + 1
    /\ data_pc' = "dead"
    /\ UNCHANGED <<proc, server_ip, connected, s_exiting, conn_pc, conn_socket,
                   conn, conn_obs, pull, push, self_socket, inq, h_do_restart,
                   v_do_restart, last, main_pc, sender, restarting, active,
                   v_exiting, v_obs, n_conn, n_msg,
                   streamVars, statusVars>>

\* line 158 raising (the socket was closed under the call, or a transport
\* error): lines 162-164 restart both endpoints and the loop goes on
DataRecvErr ==
    /\ proc = "running" /\ data_pc = "recv"
    /\ \/ /\ pull.sock = "closed"
          /\ SocketsRestart
       \/ /\ pull.sock = "open"
          /\ CanFault
          /\ n_fault' = n_fault + 1
          /\ pull' = RestartedEndpoint(pull_wait, pull_linger, TRUE)
          /\ push' = RestartedEndpoint(push_wait, push_linger, TRUE)
    /\ last' = [last EXCEPT !.restarts = @ + 1]
    /\ data_pc' = "loop"
    /\ UNCHANGED <<proc, server_ip, connected, s_exiting, conn_pc, conn_socket,
                   conn, conn_obs, self_socket, inq, h_do_restart, v_do_restart,
                   main_pc, sender, restarting, active, v_exiting,
                   v_obs, n_conn, n_msg,
                   streamVars, statusVars>>

----------------------------------------------------------------------------
(* Dispatch of one received message: line 161 of Sockets.thread_data, i.e. *)
(* Handler.handle(self.decode(msg)) with everything it calls, and the      *)
(* handler of lines 162-164 when it raises.                                *)

connVars == <<conn_pc, conn_socket, conn, conn_obs>>
videoVars == <<main_pc, sender, restarting, active, v_exiting, v_obs>>

Decoded == decode(last.bytes[1])
Route == IF Decoded.raised THEN "raise" ELSE HandleRoute(Decoded.val)
Cmd == Decoded.val.d.v

\* decode or handle raises: the except branch restarts both endpoints
HandleRaise ==
    /\ Route = "raise"
    /\ SocketsRestart
    /\ last' = [last EXCEPT !.restarts = @ + 1]
    /\ data_pc' = "loop"
    /\ UNCHANGED <<proc, server_ip, connected, s_exiting, connVars, self_socket,
                   inq, h_do_restart, v_do_restart, videoVars, n_conn, n_msg,
                   streamVars, statusVars>>

\* None, an envelope lacking k or v, or a kind that is neither CMD nor SELF
HandleIgnore ==
    /\ Route = "ignore"
    /\ UNCHANGED last
    /\ data_pc' = "loop"
    /\ UNCHANGED <<proc, server_ip, connected, s_exiting, connVars, pull, push,
                   self_socket, inq, h_do_restart, v_do_restart, videoVars,
                   n_conn, n_msg, n_fault,
                   streamVars, statusVars>>

\* a faulty variant of the DISCONNECT branch: the dispatcher clears the
\* peer address
HandleDisconnectForgetsPeer ==
    /\ Route = "cmd" /\ CmdBranch(Cmd) = "disconnect"
    /\ last' = [last EXCEPT !.sent = SocketsSend(@, CmdAck("disconnect"))]
    /\ push' = PushSent(push, CmdAck("disconnect"))
    /\ connected' = FALSE
    /\ data_pc' = "loop"
    /\ server_ip' = None
    /\ UNCHANGED <<proc, s_exiting, connVars, pull, self_socket,
                   inq, h_do_restart, v_do_restart, videoVars, n_conn, n_msg,
                   n_fault,
                   streamVars, statusVars>>

\* handle_cmd, lines 66-69
HandleDisconnect ==
    /\ Route = "cmd" /\ CmdBranch(Cmd) = "disconnect"
    /\ last' = [last EXCEPT !.sent = SocketsSend(@, CmdAck("disconnect"))]
    /\ push' = PushSent(push, CmdAck("disconnect"))
    /\ connected' = FALSE
    /\ data_pc' = "loop"
    /\ UNCHANGED <<proc, server_ip, s_exiting, connVars, pull, self_socket,
                   inq, h_do_restart, v_do_restart, videoVars, n_conn, n_msg,
                   n_fault,
                   streamVars, statusVars>>

\* handle_cmd, lines 70-73: the flag is stored on the VideoPublisher object
HandleCmdRestart ==
    /\ Route = "cmd" /\ CmdBranch(Cmd) = "restart"
    /\ last' = [last EXCEPT !.sent = SocketsSend(@, CmdAck("restart"))]
    /\ push' = PushSent(push, CmdAck("restart"))
    /\ v_do_restart' = TRUE
    /\ data_pc' = "loop"
    /\ UNCHANGED <<proc, server_ip, connected, s_exiting, connVars, pull,
                   self_socket, inq, h_do_restart, videoVars, n_conn, n_msg,
                   n_fault,
                   streamVars, statusVars>>

\* handle_cmd, lines 74-78: OK, Worker.stop (Sockets.stop, VideoPublisher.stop,
\* the device's stop), os._exit(0).  Sockets.stop and VideoPublisher.close
\* catch their own failures, Worker.stop catches nothing: when the device's
\* cleanup raises, os._exit is not reached and the handler of lines 162-164
\* (Sockets.restart) runs instead.
HandleDestroy ==
    /\ Route = "cmd" /\ CmdBranch(Cmd) = "destroy"
    /\ s_exiting' = TRUE
    /\ conn' = ClosedIfPresent(conn)
    /\ conn_socket' = ClosedIfPresent(conn_socket)
    /\ v_exiting' = TRUE
    /\ active' = FALSE
    /\ sender' = ClosedSender(sender)
    /\ \/ /\ proc' = "exit0"
          /\ push' = StoppedEndpoint(PushSent(push, CmdAck("destroy")))
          /\ pull' = StoppedEndpoint(pull)
          /\ last' = [last EXCEPT !.sent = SocketsSend(@, CmdAck("destroy"))]
          /\ data_pc' = "done"
          /\ UNCHANGED n_fault
       \/ /\ CanFault
          /\ n_fault' = n_fault + 1
          /\ push' = RestartedEndpoint(push_wait, push_linger, TRUE)
          /\ pull' = RestartedEndpoint(pull_wait, pull_linger, TRUE)
          /\ last' = [last EXCEPT !.sent = SocketsSend(@, CmdAck("destroy")),
                                  !.restarts = @ + 1]
          /\ data_pc' = "loop"
          /\ UNCHANGED proc
    /\ UNCHANGED <<server_ip, connected, conn_pc, conn_obs, self_socket, inq,
                   h_do_restart, v_do_restart, main_pc, restarting, v_obs,
                   n_conn, n_msg,
                   streamVars, statusVars>>

\* handle_cmd, lines 79-84, cmd != "": RECV, then the device
HandleDevice ==
    /\ Route = "cmd" /\ CmdBranch(Cmd) = "device"
    /\ last' = [last EXCEPT !.sent = SocketsSend(@, CmdAck("device")),
                            !.dev = send_to_device(@, Cmd)]
    /\ push' = PushSent(push, CmdAck("device"))
    /\ data_pc' = "loop"
    /\ UNCHANGED <<proc, server_ip, connected, s_exiting, connVars, pull,
                   self_socket, inq, h_do_restart, v_do_restart, videoVars,
                   n_conn, n_msg, n_fault,
                   streamVars, statusVars>>

\* handle_cmd, lines 79-84, cmd == ""
HandleEmpty ==
    /\ Route = "cmd" /\ CmdBranch(Cmd) = "empty"
    /\ UNCHANGED last
    /\ data_pc' = "loop"
    /\ UNCHANGED <<proc, server_ip, connected, s_exiting, connVars, pull, push,
                   self_socket, inq, h_do_restart, v_do_restart, videoVars,
                   n_conn, n_msg, n_fault,
                   streamVars, statusVars>>

\* handle_self, lines 51-55
HandleSelfRestart ==
    /\ Route = "self" /\ Cmd = "RESTART"
    /\ h_do_restart' = TRUE
    /\ SocketsRestart
    /\ last' = [last EXCEPT !.restarts = @ + 1]
    /\ data_pc' = "loop"
    /\ UNCHANGED <<proc, server_ip, connected, s_exiting, connVars, self_socket,
                   inq, v_do_restart, videoVars, n_conn, n_msg,
                   streamVars, statusVars>>

\* a faulty variant of the relay: only a message of the loopback is relayed
HandleSelfRelayLocalOnly ==
    /\ Route = "self" /\ Cmd # "RESTART"
    /\ last' = [last EXCEPT
                  !.sent = IF last.src = "self"
                           THEN SocketsSend(@, json_encode(socket_send_data(Cmd)))
                           ELSE @]
    /\ push' = IF last.src = "self"
               THEN PushSent(push, json_encode(socket_send_data(Cmd)))
               ELSE push
    /\ data_pc' = "loop"
    /\ UNCHANGED <<proc, server_ip, connected, s_exiting, connVars, pull,
                   self_socket, inq, h_do_restart, v_do_restart, videoVars,
                   n_conn, n_msg, n_fault,
                   streamVars, statusVars>>

\* handle_self, lines 56-57: Worker.socket_send
HandleSelfRelay ==
    /\ Route = "self" /\ Cmd # "RESTART"
    /\ last' = [last EXCEPT
                  !.sent = SocketsSend(@, json_encode(socket_send_data(Cmd)))]
    /\ push' = PushSent(push, json_encode(socket_send_data(Cmd)))
    /\ data_pc' = "loop"
    /\ UNCHANGED <<proc, server_ip, connected, s_exiting, connVars, pull,
                   self_socket, inq, h_do_restart, v_do_restart, videoVars,
                   n_conn, n_msg, n_fault,
                   streamVars, statusVars>>

DataHandle ==
    /\ proc = "running" /\ data_pc = "handle"
    /\ \/ HandleRaise
       \/ HandleIgnore
       \/ HandleDisconnect
       \/ HandleCmdRestart
       \/ HandleDestroy
       \/ HandleDevice
       \/ HandleEmpty
       \/ HandleSelfRestart
       \/ HandleSelfRelay

----------------------------------------------------------------------------
(* Video Publisher: VideoPublisher                                         *)

\* VideoPublisher.restart, lines 70-84, as run by the publish loop:
\* the values of <<sender, active, restarting, outcome>> it leaves, given
\* whether make_sender succeeds.  With no sender, `self.sender.zmq_context`
\* raises AttributeError, which the except clause logs: restarting stays True.
VideoRestart(snd, act, rst, makeOk) ==
    IF rst THEN [sender |-> snd, active |-> act, restarting |-> rst,
                 outcome |-> "skipped"]
    ELSE IF snd = "none"
    THEN [sender |-> snd, active |-> FALSE, restarting |-> TRUE,
          outcome |-> "failed"]
    ELSE IF makeOk
    THEN [sender |-> "open", active |-> TRUE, restarting |-> FALSE,
          outcome |-> "cycle"]
    ELSE [sender |-> "closed", active |-> FALSE, restarting |-> FALSE,
          outcome |-> "closed"]

\* a faulty variant of the send: the guard of line 130 is missing
VideoSendUnguarded(snd, act, rst, con, result, makeOk) ==
    IF snd = "open" /\ result = "ok"
    THEN [sender |-> snd, active |-> act, connected |-> TRUE, outcome |-> "ok",
          cycles |-> 0]
    ELSE IF snd = "open" /\ result = "err"
    THEN [sender |-> snd, active |-> act, connected |-> FALSE, outcome |-> "err",
          cycles |-> 0]
    ELSE IF act
    THEN [sender |-> IF makeOk THEN "open" ELSE "closed", active |-> act,
          connected |-> FALSE, outcome |-> "zmqerr", cycles |-> 1]
    ELSE [sender |-> snd, active |-> act, connected |-> FALSE,
          outcome |-> "zmqerr", cycles |-> 0]

\* a faulty variant of the send: recreating the sender after a transport
\* error marks the client connected
VideoSendRecreateConnects(snd, act, rst, con, result, makeOk) ==
    IF rst \/ v_exiting \/ server_ip = None
    THEN [sender |-> snd, active |-> act, connected |-> con, outcome |-> "none",
          cycles |-> 0]
    ELSE IF snd = "open" /\ result = "ok"
    THEN [sender |-> snd, active |-> act, connected |-> TRUE, outcome |-> "ok",
          cycles |-> 0]
    ELSE IF snd = "open" /\ result = "err"
    THEN [sender |-> snd, active |-> act, connected |-> FALSE, outcome |-> "err",
          cycles |-> 0]
    ELSE IF act
    THEN [sender |-> IF makeOk THEN "open" ELSE "closed", active |-> act,
          connected |-> makeOk, outcome |-> "zmqerr", cycles |-> 1]
    ELSE [sender |-> snd, active |-> act, connected |-> FALSE,
          outcome |-> "zmqerr", cycles |-> 0]

\* VideoPublisher.send, lines 128-171: the values of <<sender, active,
\* connected, outcome>> it leaves and the number of close / make_sender
\* sequences it ran; `result` is what the transport does with
\* the frame ("ok", "zmqerr", "err"); a closed sender always raises ZMQError
VideoSend(snd, act, rst, con, result, makeOk) ==
    IF rst \/ v_exiting \/ server_ip = None
    THEN [sender |-> snd, active |-> act, connected |-> con, outcome |-> "none",
          cycles |-> 0]
    ELSE IF snd = "open" /\ result = "ok"
    THEN [sender |-> snd, active |-> act, connected |-> TRUE, outcome |-> "ok",
          cycles |-> 0]
    ELSE IF snd = "open" /\ result = "err"
    THEN [sender |-> snd, active |-> act, connected |-> FALSE, outcome |-> "err",
          cycles |-> 0]
    ELSE IF act
    THEN [sender |-> IF makeOk THEN "open" ELSE "closed", active |-> act,
          connected |-> FALSE, outcome |-> "zmqerr", cycles |-> 1]
    ELSE [sender |-> snd, active |-> act, connected |-> FALSE,
          outcome |-> "zmqerr", cycles |-> 0]

----------------------------------------------------------------------------
(* Orchestrator: client.py __main__, Worker.start, Worker.stop             *)

\* Sockets.start, lines 314-322: both threads are started
MainSocketsStart ==
    /\ proc = "running" /\ main_pc = "init"
    /\ conn_pc' = "bind"
    /\ data_pc' = "init"
    /\ main_pc' = "wait_pull"
    /\ UNCHANGED <<proc, server_ip, connected, s_exiting, conn_socket, conn,
                   conn_obs, pull, push, self_socket, inq, h_do_restart,
                   v_do_restart, last, sender, restarting, active, v_exiting,
                   v_obs, n_conn, n_msg, n_fault,
                   streamVars, statusVars>>

\* Sockets.start, lines 324-332: wait for pull_socket, create the loopback PUSH
MainMakeSelf ==
    /\ proc = "running" /\ main_pc = "wait_pull"
    /\ pull.sock # "none"
    /\ self_socket' = TRUE
    /\ main_pc' = "wait_ip"
    /\ UNCHANGED <<proc, server_ip, connected, s_exiting, connVars, data_pc, pull,
                   push, inq, h_do_restart, v_do_restart, last, sender,
                   restarting, active, v_exiting, v_obs, n_conn, n_msg, n_fault,
                   streamVars, statusVars>>

\* a faulty variant of Worker.start: the peer address is not waited for
MainStartVideoNoWait ==
    /\ proc = "running" /\ main_pc = "wait_ip"
    /\ \/ /\ sender' = "open"
          /\ active' = TRUE
          /\ UNCHANGED n_fault
       \/ /\ CanFault
          /\ n_fault' = n_fault + 1
          /\ UNCHANGED <<sender, active>>
    /\ main_pc' = "publish"
    /\ UNCHANGED <<proc, server_ip, connected, s_exiting, connVars, data_pc, pull,
                   push, self_socket, inq, h_do_restart, v_do_restart, last, restarting, v_exiting, v_obs, n_conn, n_msg,
                   streamVars, statusVars>>

\* Worker.start, lines 254-260: wait for server_ip, start the device worker,
\* VideoPublisher.start (make_sender, which catches its own failure)
MainStartVideo ==
    /\ proc = "running" /\ main_pc = "wait_ip"
    /\ server_ip # None
    /\ \/ /\ sender' = "open"
          /\ active' = TRUE
          /\ UNCHANGED n_fault
       \/ /\ CanFault
          /\ n_fault' = n_fault + 1
          /\ UNCHANGED <<sender, active>>
    /\ main_pc' = "publish"
    /\ UNCHANGED <<proc, server_ip, connected, s_exiting, connVars, data_pc, pull,
                   push, self_socket, inq, h_do_restart, v_do_restart, last, restarting, v_exiting, v_obs, n_conn, n_msg,
                   streamVars, statusVars>>

\* a faulty variant of the publish loop: the exiting flag is not tested
MainPublishNoBreak ==
    /\ proc = "running" /\ main_pc = "publish"
    /\ \E makeOk \in BOOLEAN, result \in {"ok", "zmqerr", "err"} :
         LET faulty == ~makeOk \/ result # "ok"
             r == IF h_do_restart
                  THEN VideoRestart(sender, active, restarting, makeOk)
                  ELSE [sender |-> sender, active |-> active,
                        restarting |-> restarting, outcome |-> "none"]
             w == IF v_exiting \/ r.sender = "none"
                  THEN [sender |-> r.sender, active |-> r.active,
                        connected |-> connected, outcome |-> "none",
                        cycles |-> 0]
                  ELSE VideoSend(r.sender, r.active, r.restarting, connected,
                                 result, makeOk)
         IN
         /\ faulty => CanFault
         /\ n_fault' = IF faulty THEN n_fault + 1 ELSE n_fault
         /\ h_do_restart' = FALSE
         /\ sender' = w.sender
         /\ active' = w.active
         /\ restarting' = r.restarting
         /\ connected' = w.connected
         /\ v_obs' = [consumed |-> h_do_restart, restart |-> r.outcome,
                      send |-> w.outcome, cycles |-> w.cycles,
                      frame |-> IF w.outcome = "ok"
                                THEN FrameSent(jpg_compress, enabled_video)
                                ELSE NoFrame]
         /\ UNCHANGED <<main_pc, proc>>
    /\ UNCHANGED <<server_ip, s_exiting, connVars, data_pc, pull, push,
                   self_socket, inq, v_do_restart, last, v_exiting, n_conn,
                   n_msg,
                   streamVars, statusVars>>

\* VideoPublisher.publish, lines 114-126: one iteration of the publish loop.
\* Leaving the loop returns from Worker.start and ends client.py: the
\* process exits with status 0 (every other thread is a daemon).
MainPublish ==
    /\ proc = "running" /\ main_pc = "publish"
    /\ \E makeOk \in BOOLEAN, result \in {"ok", "zmqerr", "err"} :
         LET faulty == ~makeOk \/ result # "ok"
             r == IF h_do_restart
                  THEN VideoRestart(sender, active, restarting, makeOk)
                  ELSE [sender |-> sender, active |-> active,
                        restarting |-> restarting, outcome |-> "none"]
             w == IF v_exiting \/ r.sender = "none"
                  THEN [sender |-> r.sender, active |-> r.active,
                        connected |-> connected, outcome |-> "none",
                        cycles |-> 0]
                  ELSE VideoSend(r.sender, r.active, r.restarting, connected,
                                 result, makeOk)
         IN
         /\ faulty => CanFault
         /\ n_fault' = IF faulty THEN n_fault + 1 ELSE n_fault
         /\ h_do_restart' = FALSE
         /\ sender' = w.sender
         /\ active' = w.active
         /\ restarting' = r.restarting
         /\ connected' = w.connected
         /\ v_obs' = [consumed |-> h_do_restart, restart |-> r.outcome,
                      send |-> w.outcome, cycles |-> w.cycles,
                      frame |-> IF w.outcome = "ok"
                                THEN FrameSent(jpg_compress, enabled_video)
                                ELSE NoFrame]
         /\ IF v_exiting
            THEN main_pc' = "returned" /\ proc' = "exit0"
            ELSE UNCHANGED <<main_pc, proc>>
    /\ UNCHANGED <<server_ip, s_exiting, connVars, data_pc, pull, push,
                   self_socket, inq, v_do_restart, last, v_exiting, n_conn,
                   n_msg,
                   streamVars, statusVars>>

\* client.py, lines 50-53: KeyboardInterrupt in the main thread, Worker.stop
\* (Sockets.stop, VideoPublisher.stop, the device's stop)
MainInterrupt ==
    /\ proc = "running" /\ main_pc \in {"wait_pull", "wait_ip", "publish"}
    /\ CanFault
    /\ n_fault' = n_fault + 1
    /\ s_exiting' = TRUE
    /\ push' = StoppedEndpoint(push)
    /\ pull' = StoppedEndpoint(pull)
    /\ conn' = ClosedIfPresent(conn)
    /\ conn_socket' = ClosedIfPresent(conn_socket)
    /\ v_exiting' = TRUE
    /\ active' = FALSE
    /\ sender' = ClosedSender(sender)
    /\ main_pc' = "stopped"
    /\ UNCHANGED <<proc, server_ip, connected, conn_pc, conn_obs, data_pc,
                   self_socket, inq, h_do_restart, v_do_restart, last, restarting, v_obs, n_conn, n_msg,
                   streamVars, statusVars>>

\* client.py, lines 52-53: sys.exit(0)
MainSysExit ==
    /\ proc = "running" /\ main_pc = "stopped"
    /\ proc' = "exit0"
    /\ UNCHANGED <<server_ip, connected, s_exiting, connVars, data_pc, pull, push,
                   self_socket, inq, h_do_restart, v_do_restart, last, videoVars, n_conn, n_msg, n_fault,
                   streamVars, statusVars>>

----------------------------------------------------------------------------
(* The controller: a message put on the command channel.  The inbound      *)
(* endpoint conflates: an unread message of the peer is replaced.          *)

PeerSend ==
    /\ proc = "running"
    /\ n_msg < MaxMsgs
    /\ \E m \in PeerInputs : inq' = [inq EXCEPT !.peer = <<m>>]
    /\ n_msg' = n_msg + 1
    /\ UNCHANGED <<proc, server_ip, connected, s_exiting, connVars, data_pc, pull,
                   push, self_socket, h_do_restart, v_do_restart, last, videoVars, n_conn, n_fault,
                   streamVars, statusVars>>

\* the controller reads the message the outbound endpoint holds for it
PeerRead ==
    /\ proc = "running"
    /\ push.sock = "open" /\ push.bound
    /\ push.buf # <<>>
    /\ push' = [push EXCEPT !.buf = Tail(@)]
    /\ UNCHANGED <<proc, server_ip, connected, s_exiting, connVars, data_pc, pull,
                   self_socket, inq, h_do_restart, v_do_restart, last, videoVars,
                   n_conn, n_msg, n_fault,
                   streamVars, statusVars>>

----------------------------------------------------------------------------

Next ==
    \/ ConnBind \/ ConnLoop \/ ConnAccept \/ ConnAcceptErr
    \/ ConnClose \/ ConnExcept
    \/ DataInit \/ DataLoop \/ DataRecvMsg \/ DataRecvErr \/ DataHandle
    \/ MainSocketsStart \/ MainMakeSelf \/ MainStartVideo \/ MainPublish
    \/ MainInterrupt \/ MainSysExit
    \/ PeerSend \/ PeerRead

Spec == Init /\ [][Next]_vars

----------------------------------------------------------------------------
(* Sockets.send on its own: calls of send, in any state the outbound       *)
(* endpoint and the peer address can be in, with the controller reading.   *)

\* payloads the program hands to Sockets.send
Payloads ==
    { CmdAck("disconnect"), CmdAck("device"),
      json_encode(socket_send_data("STATUS: 1")) }

\* the states of the outbound endpoint: not created yet, bound, left unbound
\* by a failed bind, closed by Sockets.stop
PushStates ==
    { NoEndpoint,
      RestartedEndpoint(push_wait, push_linger, TRUE),
      RestartedEndpoint(push_wait, push_linger, FALSE),
      StoppedEndpoint(RestartedEndpoint(push_wait, push_linger, TRUE)) }

SendInit ==
    /\ proc = "running"
    /\ server_ip \in {None, PeerAddr(0)}
    /\ connected = FALSE
    /\ s_exiting = FALSE
    /\ conn_pc = "off"
    /\ conn_socket = "none"
    /\ conn = "none"
    /\ conn_obs = NoObs
    /\ data_pc = "off"
    /\ pull = NoEndpoint
    /\ push \in PushStates
    /\ self_socket = FALSE
    /\ inq = [peer |-> <<>>, self |-> <<>>]
    /\ h_do_restart = FALSE
    /\ v_do_restart = FALSE
    /\ last = NoLast
    /\ main_pc = "init"
    /\ sender = "none"
    /\ restarting = FALSE
    /\ active = FALSE
    /\ v_exiting = FALSE
    /\ v_obs = NoVObs
    /\ n_conn = 0
    /\ n_msg = 0
    /\ n_fault = 0
    /\ enabled_video = FALSE
    /\ jpg_compress = FALSE
    /\ web = FALSE
    /\ status = None
    /\ prev_status = None

\* Sockets.send, lines 209-222, with push_socket.send returning
UnitSend ==
    /\ n_msg < MaxSends
    /\ n_msg' = n_msg + 1
    /\ \E text \in Payloads :
         /\ last' = [last EXCEPT !.sent = SocketsSend(@, text)]
         /\ push' = PushSent(push, text)
    /\ UNCHANGED <<proc, server_ip, connected, s_exiting, connVars, data_pc, pull,
                   self_socket, inq, h_do_restart, v_do_restart, videoVars,
                   n_conn, n_fault,
                   streamVars, statusVars>>

\* Sockets.send, lines 209-222, with push_socket.send raising: the error is
\* logged (lines 220-222) and the payload is dropped
UnitSendFail ==
    /\ n_msg < MaxSends
    /\ n_msg' = n_msg + 1
    /\ \E text \in Payloads :
         last' = [last EXCEPT !.sent = SocketsSend(@, text)]
    /\ UNCHANGED <<proc, server_ip, connected, s_exiting, connVars, data_pc, pull,
                   push, self_socket, inq, h_do_restart, v_do_restart, videoVars,
                   n_conn, n_fault,
                   streamVars, statusVars>>

SendNext == UnitSend \/ UnitSendFail \/ PeerRead

SendSpec == SendInit /\ [][SendNext]_vars

\* the steps of each of the program's three threads
ConnThread ==
    ConnBind \/ ConnLoop \/ ConnAccept \/ ConnAcceptErr \/ ConnClose \/ ConnExcept
DataThread == DataInit \/ DataLoop \/ DataRecvMsg \/ DataRecvErr \/ DataHandle
MainThread ==
    MainSocketsStart \/ MainMakeSelf \/ MainStartVideo \/ MainPublish \/ MainSysExit

\* every thread that can take a step is eventually scheduled
FairSpec ==
    Spec /\ WF_vars(ConnThread) /\ WF_vars(DataThread) /\ WF_vars(MainThread)

----------------------------------------------------------------------------
(* Vocabulary of the properties                                            *)

\* the bytes on the wire of the JSON rendering of the envelope d
Wire(d) == Utf8(JsonText(JDict(d)))

\* the receive loop has finished dispatching the message m
Dispatched(m) == data_pc \in {"loop", "done"} /\ last.bytes = <<m>>

\* the receive loop is dispatching the message m in this step
Dispatching(m) ==
    data_pc = "handle" /\ last.bytes = <<m>> /\ data_pc' # "handle"

----------------------------------------------------------------------------
(* Properties of the discovery handshake                                   *)

\* the connection accepted last carried a CONN/NEW request
ConnNewRequested ==
    /\ conn_pc \in {"close", "except"}
    /\ conn_obs.data = <<Wire([k |-> "CONN", v |-> "NEW"])>>

\* C1: once the listener has handled an accepted connection whose first
\* buffer decodes to {k: CONN, v: NEW}, server_ip is that connection's source
\* address and exactly one response, {k: CMD, v: ACCEPT, t, hostname}, has
\* been sent on the connection.
C1_HandshakeAccepted ==
    ConnNewRequested =>
        /\ server_ip = conn_obs.addr
        /\ conn_obs.sent =
             <<Wire([k |-> "CMD", v |-> "ACCEPT", t |-> NowMs,
                     hostname |-> hostname])>>

C1_Witness ==
    /\ ConnNewRequested
    /\ conn_pc = "close"
    /\ server_ip = "10.0.0.1"
    /\ Len(conn_obs.sent) = 1

\* C2 (first half): after every successful handshake (the response went out
\* on the connection) a {k: SELF, v: RESTART} loopback message has been
\* posted to the inbound endpoint.
C2_RestartPosted ==
    (conn_pc = "close" /\ ConnNewRequested /\ conn_obs.sendOk) => conn_obs.posted

----------------------------------------------------------------------------
(* Properties of the dispatch of peer commands                             *)

\* the acknowledgments as they appear on the wire
OkAck == Wire([k |-> "CMD", v |-> "OK", t |-> NowMs])
RecvAck == Wire([k |-> "CMD", v |-> "RECV", t |-> NowMs])

\* what Sockets.send hands to the outbound endpoint for the payload b, as
\* decided before the dispatch: the peer is known and the outbound endpoint
\* exists with an open context, or nothing at all
Outbound(b) ==
    IF server_ip # None /\ push.sock # "none" /\ push.ctx = "open"
    THEN <<b>> ELSE <<>>

C6_EmptyCommand ==
    [][Dispatching(Wire([k |-> "CMD", v |-> ""])) =>
         /\ last'.sent = <<>>
         /\ last'.dev = <<>>
         /\ last'.restarts = 0]_vars

C6_Witness ==
    /\ Dispatched(Wire([k |-> "CMD", v |-> ""]))
    /\ server_ip # None /\ push.sock = "open" /\ push.ctx = "open"
    /\ last.sent = <<>>
    /\ last.dev = <<>>

\* C7: dispatching a peer COMMAND RESTART acknowledges with OK (when the
\* outbound endpoint can send) and raises the restart request the publish
\* loop acts on, i.e. the flag it polls (Handler.do_restart).
C7_RestartRequested ==
    [][Dispatching(Wire([k |-> "CMD", v |-> "RESTART"])) =>
         /\ last'.sent = Outbound(OkAck)
         /\ h_do_restart']_vars

----------------------------------------------------------------------------
(* Properties of the dispatch of loopback and malformed messages           *)

\* C8: when the publish loop consumes the restart flag raised by a LOOPBACK
\* RESTART, it clears the flag and takes the sender through the
\* close/recreate sequence.
C8_FlagRestartsSender ==
    v_obs.consumed => (~h_do_restart /\ v_obs.restart = "cycle")

Malformed ==
    { BadUtf8,
      Utf8(GarbageText),
      Utf8(JsonText(JInt)),
      Wire([k |-> "CMD"]),
      Wire([k |-> "CONN", v |-> "NEW"]) }

\* C10: dispatching a malformed message, or one of a kind other than CMD and
\* SELF, sends nothing, forwards nothing, changes no flag and restarts no
\* endpoint.
C10_SilentDrop ==
    [][\A m \in Malformed :
         Dispatching(m) =>
            /\ last'.sent = <<>>
            /\ last'.dev = <<>>
            /\ last'.restarts = 0
            /\ UNCHANGED <<connected, h_do_restart, v_do_restart>>]_vars

----------------------------------------------------------------------------
(* Properties of the video sender and of the channel endpoints             *)

\* C11: a frame send that failed with a transport error has run exactly one
\* close / make_sender sequence on the video sender and left connected
\* false.
C11_SendFailureRecycles ==
    v_obs.send = "zmqerr" => (v_obs.cycles = 1 /\ ~connected)

\* the externally observable state of an endpoint that is present, open,
\* bound to its address and carries the given options, with nothing queued
Bound(options) ==
    [sock |-> "open", ctx |-> "open", bound |-> TRUE, opts |-> options,
     buf |-> <<>>]

\* this step runs Sockets.restart() to completion with no transport fault
RestartStep == last'.restarts = last.restarts + 1 /\ n_fault' = n_fault

C13_OutboundConflates ==
    [][/\ Len(push'.buf) <= 1
       /\ \A text \in Payloads :
            last'.sent = Append(last.sent, Utf8(text)) =>
               push'.buf \in {<<Utf8(text)>>, push.buf}]_vars

\* two different payloads were sent with no read in between and the endpoint
\* holds the second
C13_Witness ==
    /\ Len(last.sent) = 2
    /\ last.sent[1] # last.sent[2]
    /\ push.buf = <<last.sent[2]>>

\* the cases in which send() has nothing to send to: peer address unknown,
\* outbound endpoint absent, outbound endpoint closed
NoSendCase == server_ip = None \/ push = NoEndpoint \/ push.sock = "closed"

NotConnNew ==
    { BadUtf8,
      Utf8(GarbageText),
      Utf8(JsonText(JInt)),
      Wire([k |-> "CONN"]),
      Wire([k |-> "CONN", v |-> "OLD"]),
      Wire([k |-> "CMD", v |-> "NEW"]) }

\* C15: accepting a discovery connection whose payload is malformed or is
\* anything other than {k: CONN, v: NEW} sends no response on it, leaves the
\* peer address as it was and posts no loopback message.
C15_BadHandshakeIgnored ==
    [][\A data \in NotConnNew :
         (conn_pc = "accept" /\ conn_obs'.data = <<data>>) =>
            /\ conn_obs'.sent = <<>>
            /\ ~conn_obs'.posted
            /\ server_ip' = server_ip
            /\ inq' = inq]_vars

\* a connection carrying {k: CONN, v: OLD} has been accepted and handled, the
\* loopback endpoint being ready
C15_Witness ==
    /\ conn_pc = "close"
    /\ conn_obs.data = <<Wire([k |-> "CONN", v |-> "OLD"])>>
    /\ conn_obs.sent = <<>>
    /\ self_socket

\* the envelope encoded in the bytes b carries a timestamp
Stamped(b) ==
    /\ b.valid /\ b.text.kind = "json" /\ b.text.val.type = "dict"
    /\ "t" \in DOMAIN b.text.val.d

\* C16: every envelope the client has encoded and sent -- on the discovery
\* connection, on the outbound channel, on the loopback -- carries t.
C16_EveryEnvelopeStamped ==
    /\ \A i \in DOMAIN conn_obs.sent : Stamped(conn_obs.sent[i])
    /\ \A i \in DOMAIN last.sent : Stamped(last.sent[i])
    /\ \A i \in DOMAIN inq.self : Stamped(inq.self[i])

\* buffers that are not valid text, or whose text is not JSON
Undecodable == {BadUtf8, Utf8(GarbageText)}

\* decode(b) returns to its caller, and returns None when b is undecodable
DecodesQuietly(b) ==
    /\ ~decode(b).raised
    /\ b \in Undecodable => decode(b).val = JNone

\* C17: decoding never raises to its caller: for every buffer the listener
\* or the receive loop has read and decoded, decode returned, and returned
\* None when the buffer is not valid text or not JSON.
C17_DecodeNeverRaises ==
    /\ \A i \in DOMAIN conn_obs.data : DecodesQuietly(conn_obs.data[i])
    /\ data_pc # "recv" => \A i \in DOMAIN last.bytes : DecodesQuietly(last.bytes[i])

\* the positions of the receive loop of thread_data (lines 149-164)
InReceiveLoop == data_pc \in {"loop", "recv", "handle"}

\* an endpoint that has just been created anew: open, nothing queued
Recreated(e) == e.sock = "open" /\ e.ctx = "open" /\ e.buf = <<>>

\* C18: when the receive call of the loop fails, restart() runs (both
\* endpoints are created anew) and the loop goes back to its head; no step
\* takes the thread out of the loop except the exit at its head, which is
\* taken only with exiting set (or the end of the whole process).
C18_ReceiveFailureRestarts ==
    [][/\ (data_pc = "recv" /\ data_pc' # "recv" /\ last'.bytes = <<>>) =>
             /\ data_pc' = "loop"
             /\ last'.restarts = 1
             /\ Recreated(pull') /\ Recreated(push')
       /\ InReceiveLoop => (InReceiveLoop' \/ (data_pc' = "done" /\ s_exiting'))]_vars

\* a receive has failed on a transport error, both endpoints have been
\* created anew and the loop is back at its head, not exiting
C18_Witness ==
    /\ data_pc = "loop" /\ last.bytes = <<>> /\ last.restarts = 1
    /\ ~s_exiting /\ n_fault = 1
    /\ Recreated(pull) /\ Recreated(push)

\* C19: the discovery listener never gives up: whatever transport error
\* occurs (a failing bind or accept, at start-up or later, with or without a
\* connection accepted before), its thread is never ended by it.
C19_ListenerNeverDies == conn_pc # "dead"

\* the handles of the inbound and outbound endpoints
Handles == <<pull.sock, pull.ctx, push.sock, push.ctx>>

\* the receive-loop thread is inside a receive call or a dispatch, which
\* use the inbound and the outbound endpoint
DataThreadUsing == data_pc \in {"recv", "handle"}

\* C20: the handles of the inbound and outbound endpoints are never closed
\* or recreated by another thread while the receive-loop thread is using
\* them: a step that changes them is never a step of the main thread or of
\* the discovery listener.
C20_EndpointsConfined ==
    [][(DataThreadUsing /\ Handles' # Handles) =>
          UNCHANGED <<main_pc, conn_pc>>]_vars

\* this step runs Sockets.restart(), whether its binds succeed or not
RestartRuns == last'.restarts = last.restarts + 1

\* C21: restart() is never executed before a discovery handshake has
\* completed successfully (before an ACCEPT response has been sent).
C21_RestartAfterHandshake ==
    [][RestartRuns => conn_obs.accepted]_vars

\* this step creates the listening socket of the discovery listener anew
ListenerRecreated == conn_socket # "listening" /\ conn_socket' = "listening"

\* C22: when the receive call of the command loop or the accept call of the
\* discovery loop fails with exiting already set, the loop ends instead of
\* retrying: no restart() of the endpoints and no recreation of the listening
\* socket follows.
C22_NoRetryOnceExiting ==
    [][s_exiting =>
         /\ data_pc = "recv" => ~RestartRuns
         /\ conn_pc \in {"accept", "except"} => ~ListenerRecreated]_vars

\* the three loops have ended: each thread has left its loop, or the
\* process, whose other threads are daemons, has ended
LoopsTerminated ==
    \/ proc # "running"
    \/ /\ conn_pc \in {"done", "dead"}
       /\ data_pc \in {"done", "dead"}
       /\ main_pc \in {"stopped", "returned"}

\* C23: once stop() has set the exiting flags and closed the sockets, the
\* discovery accept loop, the command receive loop and the video publish
\* loop each eventually terminate.
C23_LoopsTerminate == (s_exiting /\ v_exiting) ~> LoopsTerminated

\* after a stop() both daemon loops have left through their exit test while
\* the process is still alive
C23_Witness ==
    /\ s_exiting /\ v_exiting /\ proc = "running"
    /\ conn_pc = "done" /\ data_pc = "done" /\ main_pc = "stopped"

\* C24: whenever restart() has run, the inbound and the outbound endpoint
\* are both newly created, open and bound: it never returns with one of
\* them closed, absent or unbound.
C24_RestartWholesale ==
    [][RestartRuns =>
         /\ Recreated(pull') /\ pull'.bound
         /\ Recreated(push') /\ push'.bound]_vars

\* C25: a failure to bind a channel endpoint, at the initial bind or during
\* a restart, is never fatal: it does not end the receive-loop thread (which
\* must stay alive to retry the bind and resume receiving).
C25_BindFailureNotFatal == data_pc # "dead"

\* the main thread waits, in Sockets.start or Worker.start, for a value that
\* only a thread that has ended could still set
StartupBlocked ==
    \/ main_pc = "wait_pull" /\ pull.sock = "none" /\ data_pc = "dead"
    \/ main_pc = "wait_ip" /\ server_ip = None /\ conn_pc = "dead"

\* C26: a failure inside one loop never blocks another loop or the main
\* thread for good: the start-up wait of the main thread is never left
\* waiting for a thread that a failure has ended.
C26_FailuresContained == ~StartupBlocked

\* the listener is at the head of its loop or waiting in accept
Listening == conn_pc \in {"loop", "accept"}

\* C27: the listener services one connection at a time: whenever it is back
\* at its loop head or in accept, the connection it accepted before is
\* closed; and when it returns there from handling a connection with no
\* further transport fault, the listening socket is listening again.
C27_OneConnectionAtATime ==
    [][/\ Listening' => conn' # "open"
       /\ (conn_pc \in {"close", "except"} /\ Listening' /\ n_fault' = n_fault) =>
             conn' = "closed" /\ conn_socket' = "listening"]_vars

\* a connection has been accepted and handled, and the listener waits for
\* the next one
C27_Witness ==
    /\ conn_pc = "accept" /\ n_conn = 1
    /\ conn = "closed" /\ conn_socket = "listening"

\* C28: within a handshake the peer address is recorded before the ACCEPT
\* response is sent (it is recorded even when that send fails), and the
\* loopback RESTART is posted only after the response has been sent: none
\* is posted for a handshake whose response was not sent.
C28_HandshakeOrder ==
    [][(conn_pc = "accept" /\ conn_pc' # "accept") =>
         /\ conn_obs'.sent # <<>> => server_ip' = conn_obs'.addr
         /\ (inq' # inq \/ conn_obs'.posted) =>
               /\ conn_obs'.sendOk
               /\ conn_obs'.sent =
                    <<Wire([k |-> "CMD", v |-> "ACCEPT", t |-> NowMs,
                            hostname |-> hostname])>>
               /\ inq'.self = <<Wire([k |-> "SELF", v |-> "RESTART"])>>]_vars

\* a handshake has been answered and its loopback RESTART is waiting
C28_Witness ==
    /\ conn_pc = "close" /\ conn_obs.posted /\ conn_obs.sendOk
    /\ inq.self = <<Wire([k |-> "SELF", v |-> "RESTART"])>>

\* C29: the loopback connection is created once, only when the inbound
\* endpoint is bound, and is kept from then on: no step, restart() included,
\* closes it.
C29_LoopbackAfterBind ==
    [][/\ (~self_socket /\ self_socket') => (pull.sock = "open" /\ pull.bound)
       /\ self_socket => self_socket']_vars

\* C30: while server_ip is unset, Worker.start has not gone past its wait:
\* the device worker is not started, the video sender is not created and
\* the publish loop has not run.
C30_StartWaitsForPeer ==
    server_ip = None =>
        /\ main_pc \notin {"publish", "returned"}
        /\ sender = "none"
        /\ v_obs = NoVObs

\* a connection that was no handshake has been handled and Worker.start is
\* still waiting for the peer address
C30_Witness ==
    /\ main_pc = "wait_ip" /\ server_ip = None
    /\ n_conn = 1 /\ Listening /\ sender = "none"

\* C31: connected is false at start and becomes true only in a step of the
\* publish loop whose frame send succeeded: never by a socket creation, a
\* bind, a restart or the discovery handshake.
C31_ConnectedOnlyBySend ==
    /\ ~connected
    /\ [][(~connected /\ connected') =>
            (main_pc = "publish" /\ v_obs'.send = "ok")]_vars

\* a frame has been sent and the client is marked connected
C31_Witness == connected /\ v_obs.send = "ok" /\ sender = "open"

\* this step ends the process
ProcessEnds == proc = "running" /\ proc' # "running"

\* C32: DESTROY is the only dispatched message that ends the process, and
\* every dispatch of DESTROY does end it, with status 0 and with the
\* channels shut down (never open again), whether or not a step of the
\* shutdown fails.
C32_DestroyExits ==
    [][\A m \in PeerInputs :
         Dispatching(m) =>
            IF m = Wire([k |-> "CMD", v |-> "DESTROY"])
            THEN /\ proc' = "exit0"
                 /\ s_exiting' /\ v_exiting'
                 /\ pull'.sock # "open" /\ push'.sock # "open"
            ELSE ~ProcessEnds]_vars

\* C33: the peer address is single-writer: every step that changes
\* server_ip is a step of the discovery listener handling an accepted
\* connection; no step of the receive loop, of the dispatcher or of the
\* publish loop changes it.
C33_PeerAddressSingleWriter ==
    [][server_ip' # server_ip =>
         /\ conn_pc = "accept" /\ conn_pc' # "accept"
         /\ server_ip' = conn_obs'.addr
         /\ UNCHANGED <<data_pc, main_pc>>]_vars

\* the listener has written the peer address while the receive loop and the
\* main thread were running
C33_Witness ==
    /\ conn_pc \in {"close", "except"}
    /\ conn_obs.addr # None /\ server_ip = conn_obs.addr
    /\ data_pc = "loop" /\ main_pc = "wait_ip"

\* C34: whenever they exist, at the first bind and after every restart, the
\* inbound and the outbound endpoint carry the same settings: CONFLATE on
\* and LINGER = 0 (a close does not block).
C34_SameEndpointOptions ==
    /\ pull.sock # "none" => pull.opts = {"conflate", "linger0"}
    /\ push.sock # "none" => push.opts = {"conflate", "linger0"}

\* VideoPublisher.publish, lines 116-118: the step consumes a restart
\* request, so it runs VideoPublisher.restart()
VideoRestartCalled == main_pc = "publish" /\ h_do_restart /\ ~h_do_restart'

\* VideoPublisher.send, lines 157-166: the step ran the handler of a
\* transport error
SendFailureHandled ==
    main_pc = "publish" /\ v_obs' # v_obs /\ v_obs'.send = "zmqerr"

\* C35: whenever restart() or the send-failure handler of the Video
\* Publisher finishes, normally or through an exception (no sender exists),
\* `restarting` is false again.
C35_RestartingCleared ==
    [][(VideoRestartCalled \/ SendFailureHandled) => ~restarting']_vars

\* listen_conn, lines 68-88: this step of the Discovery Listener answers a
\* CONN/NEW request with ACCEPT
HandshakeCompletes == conn_pc = "accept" /\ conn_obs'.sendOk

\* C36: after the COMMAND DISCONNECT has set `connected` to false, it stays
\* false until a new discovery handshake completes; publishing frames does
\* not set it back to true.
C36_DisconnectedUntilHandshake ==
    [][(/\ Dispatched(Wire([k |-> "CMD", v |-> "DISCONNECT"]))
        /\ ~connected /\ connected') => HandshakeCompletes]_vars

----------------------------------------------------------------------------
(* VideoPublisher.send on its own: calls of send, in any state the flags,  *)
(* the sender, the peer address and the loaded stream options can be in,   *)
(* with VideoPublisher.stop called from another thread.                    *)

\* a faulty variant of the configuration loading: JPEG compression is not
\* forced on
StorageInitNoForce(aes_video, jpeg) ==
    [enabled_video |-> aes_video, jpg_compress |-> jpeg]

\* Storage.init, lines 65, 73 and 89-91: the stream options that the values
\* security.aes.video and client.stream.jpeg of the configuration give
StorageInit(aes_video, jpeg) ==
    [enabled_video |-> aes_video,
     jpg_compress |-> IF aes_video THEN TRUE ELSE jpeg]

VideoInit ==
    /\ proc = "running"
    /\ server_ip \in {None, PeerAddr(0)}
    /\ connected \in BOOLEAN
    /\ s_exiting = FALSE
    /\ conn_pc = "off"
    /\ conn_socket = "none"
    /\ conn = "none"
    /\ conn_obs = NoObs
    /\ data_pc = "off"
    /\ pull = NoEndpoint
    /\ push = NoEndpoint
    /\ self_socket = FALSE
    /\ inq = [peer |-> <<>>, self |-> <<>>]
    /\ h_do_restart = FALSE
    /\ v_do_restart = FALSE
    /\ last = NoLast
    /\ main_pc = "publish"
    /\ sender \in {"open", "closed"}
    /\ restarting \in BOOLEAN
    /\ active \in BOOLEAN
    /\ v_exiting = FALSE
    /\ v_obs = NoVObs
    /\ n_conn = 0
    /\ n_msg = 0
    /\ n_fault = 0
    /\ \E aes_video \in BOOLEAN, jpeg \in BOOLEAN :
         /\ enabled_video = StorageInit(aes_video, jpeg).enabled_video
         /\ jpg_compress = StorageInit(aes_video, jpeg).jpg_compress
    /\ web = FALSE
    /\ status = None
    /\ prev_status = None

\* VideoPublisher.send, lines 128-171: one call (n_msg counts the calls)
UnitVideoSend ==
    /\ n_msg < MaxSends
    /\ n_msg' = n_msg + 1
    /\ \E makeOk \in BOOLEAN, result \in {"ok", "zmqerr", "err"} :
         LET w == VideoSend(sender, active, restarting, connected, result,
                            makeOk)
         IN
         /\ sender' = w.sender
         /\ active' = w.active
         /\ connected' = w.connected
         /\ v_obs' = [consumed |-> FALSE, restart |-> "none",
                      send |-> w.outcome, cycles |-> w.cycles,
                      frame |-> IF w.outcome = "ok"
                                THEN FrameSent(jpg_compress, enabled_video)
                                ELSE NoFrame]
    /\ UNCHANGED <<proc, server_ip, s_exiting, connVars, data_pc, pull, push,
                   self_socket, inq, h_do_restart, v_do_restart, last,
                   main_pc, restarting, v_exiting, n_conn, n_fault,
                   streamVars, statusVars>>

\* VideoPublisher.stop, lines 90-96, called by another thread (Worker.stop)
UnitVideoStop ==
    /\ ~v_exiting
    /\ v_exiting' = TRUE
    /\ active' = FALSE
    /\ sender' = ClosedSender(sender)
    /\ UNCHANGED <<proc, server_ip, connected, s_exiting, connVars, data_pc,
                   pull, push, self_socket, inq, h_do_restart, v_do_restart,
                   last, main_pc, restarting, v_obs, n_conn, n_msg, n_fault,
                   streamVars, statusVars>>

VideoNext == UnitVideoSend \/ UnitVideoStop

VideoSpec == VideoInit /\ [][VideoNext]_vars

\* C37: when video encryption is enabled JPEG compression is on, and every
\* frame sent is JPEG-encoded and encrypted.
C37_EncryptedFramesAreJpeg ==
    enabled_video =>
        /\ jpg_compress
        /\ v_obs.frame # NoFrame =>
             /\ v_obs.frame.call = "send_jpg"
             /\ v_obs.frame.jpeg /\ v_obs.frame.encrypted

\* a frame has been sent with video encryption enabled
C37_Witness ==
    /\ enabled_video /\ v_obs.send = "ok"
    /\ v_obs.frame = [call |-> "send_jpg", jpeg |-> TRUE, encrypted |-> TRUE]

\* this step is a call of VideoPublisher.send whose guard (line 130) does not
\* pass
GuardedSendCalled ==
    /\ n_msg' = n_msg + 1
    /\ restarting \/ v_exiting \/ server_ip = None

\* C39: while restarting is true, after exiting is set, or while the peer
\* address is unset, VideoPublisher.send() sends no frame and leaves
\* connected and the sender unchanged.
C39_GuardedSendIsNoOp ==
    [][GuardedSendCalled =>
         /\ v_obs'.send = "none" /\ v_obs'.frame = NoFrame
         /\ UNCHANGED <<connected, sender, active, restarting>>]_vars

\* send() was called with a usable sender while the guard did not pass, and
\* the client is still marked connected
C39_Witness ==
    /\ n_msg > 0 /\ v_obs.send = "none"
    /\ restarting /\ sender = "open" /\ server_ip # None /\ connected

\* the places a message on the inbound endpoint can come from: the
\* controller and the local loopback
Origins == {"peer", "self"}

----------------------------------------------------------------------------
(* The device status collector on its own: calls of collect_status, with   *)
(* the publish loop changing `connected` and the receive loop reading the  *)
(* loopback in between.                                                    *)

\* what Status.get_status can return
Statuses == {"STATUS: 1", "STATUS: 2", "STATUS: 3"}

\* Worker.socket_send_self, lines 217-228: the envelope posted to the loopback
socket_send_self_data(msg) == [k |-> DATA_KEY_SELF, v |-> msg, t |-> NowMs]

\* a faulty variant of the collector: the previous status is only updated
\* when the status was posted
collect_status_on_post(st, prev, w, con) ==
    [post |-> st # prev /\ ~w /\ con,
     prev_status |-> IF st # prev /\ ~w /\ con THEN st ELSE prev]

\* collect_status, arduino.py lines 33-40 and raspberry.py lines 69-76, for
\* the collected status st: whether it is posted, and the new prev_status
collect_status(st, prev, w, con) ==
    [post |-> st # prev /\ ~w /\ con, prev_status |-> st]

StatusInit ==
    /\ proc = "running"
    /\ server_ip = PeerAddr(0)
    /\ connected \in BOOLEAN
    /\ s_exiting = FALSE
    /\ conn_pc = "off"
    /\ conn_socket = "none"
    /\ conn = "none"
    /\ conn_obs = NoObs
    /\ data_pc = "off"
    /\ pull = NoEndpoint
    /\ push = NoEndpoint
    /\ self_socket = TRUE
    /\ inq = [peer |-> <<>>, self |-> <<>>]
    /\ h_do_restart = FALSE
    /\ v_do_restart = FALSE
    /\ last = NoLast
    /\ main_pc = "publish"
    /\ sender = "open"
    /\ restarting = FALSE
    /\ active = TRUE
    /\ v_exiting = FALSE
    /\ v_obs = NoVObs
    /\ n_conn = 0
    /\ n_msg = 0
    /\ n_fault = 0
    /\ enabled_video = FALSE
    /\ jpg_compress = FALSE
    /\ web \in BOOLEAN
    /\ status \in {None} \cup Statuses
    /\ prev_status = status

\* one call of collect_status (n_msg counts the calls)
UnitCollect ==
    /\ n_msg < MaxCollects
    /\ n_msg' = n_msg + 1
    /\ \E st \in Statuses :
         LET c == collect_status(st, prev_status, web, connected)
         IN
         /\ status' = st
         /\ inq' = IF c.post
                   THEN send_self(inq, json_encode(socket_send_self_data(st)))
                   ELSE inq
         /\ prev_status' = c.prev_status
    /\ UNCHANGED <<proc, server_ip, connected, s_exiting, connVars, data_pc,
                   pull, push, self_socket, h_do_restart, v_do_restart,
                   last, videoVars, n_conn, n_fault, streamVars, web>>

\* VideoPublisher.send, lines 153 and 166: the publish loop sets `connected`
\* after a frame send that succeeded, and clears it after one that failed
UnitConnected ==
    /\ connected' = ~connected
    /\ UNCHANGED <<proc, server_ip, s_exiting, connVars, data_pc, pull, push,
                   self_socket, inq, h_do_restart, v_do_restart, last,
                   videoVars, n_conn, n_msg, n_fault, streamVars,
                   statusVars>>

\* thread_data, line 158: the receive loop takes the loopback message
UnitLoopRead ==
    /\ inq.self # <<>>
    /\ inq' = [inq EXCEPT !.self = <<>>]
    /\ UNCHANGED <<proc, server_ip, connected, s_exiting, connVars, data_pc,
                   pull, push, self_socket, h_do_restart, v_do_restart,
                   last, videoVars, n_conn, n_msg, n_fault, streamVars,
                   statusVars>>

StatusNext == UnitCollect \/ UnitConnected \/ UnitLoopRead

StatusSpec == StatusInit /\ [][StatusNext]_vars

\* this step is a call of collect_status
Collecting == n_msg' = n_msg + 1

\* C40: a collection posts the status to the loopback exactly when it
\* differs from the status collected before, the client is not in web mode
\* and `connected` is true; every collection makes the collected status the
\* previous one, so a status first seen while `connected` was false is not
\* posted by a later collection that returns the same status.
C40_StatusPostedOnChange ==
    /\ [](prev_status = status)
    /\ [][Collecting =>
            /\ inq'.self =
                 IF status' # prev_status /\ ~web /\ connected
                 THEN <<Wire([k |-> "SELF", v |-> status', t |-> NowMs])>>
                 ELSE inq.self
            /\ status' = status => inq' = inq]_vars

\* a changed status has been posted while connected
C40_Witness ==
    /\ n_msg > 1 /\ connected /\ ~web
    /\ status = "STATUS: 2"
    /\ inq.self = <<Wire([k |-> "SELF", v |-> "STATUS: 2", t |-> NowMs])>>

====
